---- MODULE Spec2Model ----
(***************************************************************************)
(* Model of app.py: a LINE webhook bot that remembers the last image of a  *)
(* conversation in the process-wide dict pending_images and, when one of   *)
(* the next three text messages of that conversation is a 5-digit id,      *)
(* downloads the image and uploads it to Google Drive.                     *)
(*                                                                         *)
(* Every run of handle_image_message / handle_text_message is a call frame *)
(* in `frames`; a frame advances one statement that touches shared state   *)
(* (pending_images, the record dicts, the LINE and Drive services) at a    *)
(* time, so that frames of several requests interleave.                    *)
(***************************************************************************)
EXTENDS Integers, Sequences, FiniteSets, TLC

\* ------------------------------------------------------------------ bounds
MaxEvents == 4      \* webhook events delivered in one behaviour
MaxInFlight == 2    \* request handlers running at the same time
MaxDay == 2         \* calendar days a behaviour spans

\* --------------------------------------------------------------- constants
Budget == 3         \* "remaining": 3

None == <<"None">>  \* Python's None where a chat key is expected
NoFile == <<>>      \* Python's None where a file name is expected (falsy)

\* ------------------------------------------------------------------ inputs
AsciiDigits == {"0", "1", "2", "3", "4", "5", "6", "7", "8", "9"}
\* \d of a str pattern matches every Unicode decimal digit, not only 0-9
UnicodeDigits == AsciiDigits \cup {"U+0663"}
Whitespace == {" ", "\n"}

T_id == <<"0", "0", "0", "0", "1">>
T_padded == <<" ", "0", "0", "0", "0", "1", " ">>
T_word == <<"x", "x">>
Texts == {T_id, T_padded, T_word}

\* more message contents, for the handlers' test of the text
T_arabic == <<"U+0663", "U+0663", "U+0663", "U+0663", "U+0663">>
T_four == <<"0", "0", "0", "1">>
T_six == <<"0", "0", "0", "0", "0", "1">>
T_newline == <<"0", "0", "0", "0", "1", "\n">>
T_inner == <<"0", "0", " ", "0", "0", "1">>
WideTexts == Texts \cup {T_arabic, T_four, T_six, T_newline, T_inner}

\* ids are strings, here sequences of characters; an absent attribute and an
\* empty id are both falsy and both <<>>
IdA == <<"U", "1">>
IdB == <<"U", "2">>

S_user == [user_id |-> IdA, group_id |-> <<>>, room_id |-> <<>>]
S_group == [user_id |-> <<>>, group_id |-> IdA, room_id |-> <<>>]
S_none == [user_id |-> <<>>, group_id |-> <<>>, room_id |-> <<>>]
Sources == {S_user, S_group, S_none}

\* more sources: every combination of ids present, and a second raw id
AllSources ==
    {[user_id |-> u, group_id |-> g, room_id |-> r] : u, g, r \in {<<>>, IdA}}
    \cup {[user_id |-> <<>>, group_id |-> IdB, room_id |-> IdA]}

\* the message of an image event (it carries no text)
Image == <<"<image>">>

\* ------------------------------------------------------------ pure helpers
\* mutant: the final "return None" is lost, a source without ids is keyed as a room
get_chat_key_no_none(source) ==
    IF source.user_id # <<>> THEN <<"u", "s", "e", "r", ":">> \o source.user_id
    ELSE IF source.group_id # <<>> THEN <<"g", "r", "o", "u", "p", ":">> \o source.group_id
    ELSE <<"r", "o", "o", "m", ":">> \o source.room_id

\* mutant: the type tag is left out of the key
get_chat_key_untagged(source) ==
    IF source.user_id # <<>> THEN source.user_id
    ELSE IF source.group_id # <<>> THEN source.group_id
    ELSE IF source.room_id # <<>> THEN source.room_id
    ELSE None

\* f"user:{source.user_id}", f"group:{source.group_id}", f"room:{source.room_id}"
get_chat_key(source) ==
    IF source.user_id # <<>> THEN <<"u", "s", "e", "r", ":">> \o source.user_id
    ELSE IF source.group_id # <<>> THEN <<"g", "r", "o", "u", "p", ":">> \o source.group_id
    ELSE IF source.room_id # <<>> THEN <<"r", "o", "o", "m", ":">> \o source.room_id
    ELSE None

Keys == {get_chat_key(s) : s \in AllSources} \ {None}

RECURSIVE lstrip(_)
lstrip(s) ==
    IF s # <<>> /\ Head(s) \in Whitespace THEN lstrip(Tail(s)) ELSE s

RECURSIVE rstrip(_)
rstrip(s) ==
    IF s # <<>> /\ s[Len(s)] \in Whitespace
    THEN rstrip(SubSeq(s, 1, Len(s) - 1))
    ELSE s

\* str.strip()
strip(s) == rstrip(lstrip(s))

\* mutant: the pattern without its final $
ID_PATTERN_open(text) ==
    /\ Len(text) >= 5
    /\ \A i \in 1..5 : text[i] \in UnicodeDigits

\* ID_PATTERN.match(text) for ^\d{5}$ : five digits from the start, then the
\* end of the string or a final newline
ID_PATTERN(text) ==
    /\ Len(text) \in {5, 6}
    /\ \A i \in 1..5 : text[i] \in UnicodeDigits
    /\ Len(text) = 6 => text[6] = "\n"

\* calendar date of the n-th day of a behaviour: 2025-12-31, 2026-01-01, ...
DateOf(n) ==
    IF 30 + n <= 31 THEN [year |-> 2025, month |-> 12, day |-> 30 + n]
    ELSE [year |-> 2026, month |-> 1, day |-> n - 1]

DigitChar(n) == <<"0", "1", "2", "3", "4", "5", "6", "7", "8", "9">>[n + 1]

\* strftime("%Y%m%d"): four digits of the year, two of the month, two of the day
strftime(date) ==
    <<DigitChar(date.year \div 1000), DigitChar((date.year \div 100) % 10),
      DigitChar((date.year \div 10) % 10), DigitChar(date.year % 10),
      DigitChar(date.month \div 10), DigitChar(date.month % 10),
      DigitChar(date.day \div 10), DigitChar(date.day % 10)>>

\* filename = f"{today_date}_{bank_tail}.jpg"
filename_of(today_date, bank_tail) == today_date \o <<"_">> \o bank_tail \o <<".jpg">>

\* upload_image_to_google_drive: the file name when the service exists and
\* the API call succeeds, None otherwise (its own errors are caught inside)
upload_image_to_google_drive(service, api_ok, today_date, bank_tail) ==
    IF service /\ api_ok THEN filename_of(today_date, bank_tail) ELSE NoFile

\* what the handlers decide with: text.strip(), then ID_PATTERN.match
Matches(raw) == ID_PATTERN(strip(raw))

\* ------------------------------------------------------------------- state
VARIABLES
    pending_images,        \* dict: chat key -> reference of a record dict
    heap,                  \* record dicts by reference: message_id, remaining
    GOOGLE_DRIVE_SERVICE,  \* TRUE when build_drive_service returned a service
    frames,                \* the handler calls in progress
    now,                   \* the day datetime.now() falls on
    nextId,                \* id of the next event the platform delivers
    last_image,            \* history: id of the last image event delivered per key
    image_day,             \* history: the day that image event was delivered
    since,                 \* history: texts delivered per key since its last image
    first_match,           \* history: which of those texts was the first to match, or 0
    replaced               \* history: message ids per key whose record a new image overwrote

vars == <<pending_images, heap, GOOGLE_DRIVE_SERVICE, frames, now, nextId,
          last_image, image_day, since, first_match, replaced>>

history == <<last_image, image_day, since, first_match>>

\* a MessageEvent
Event(id, kind, source, text) ==
    [id |-> id, reply_token |-> 1000 + id, kind |-> kind, source |-> source, text |-> text]

NoRecord == [message_id |-> 0, remaining |-> 0]

\* mutant: the budget starts one short
NewRecord_short(event) == [message_id |-> event.id, remaining |-> Budget - 1]

\* the dict handle_image_message stores
NewRecord(event) == [message_id |-> event.id, remaining |-> Budget]

\* the frame of a handler that was just called with `event`
NewFrame(event) ==
    [event |-> event, pc |-> "entry", chat_key |-> None, text |-> <<>>,
     record |-> 0, tmp |-> 0, uploaded_filename |-> NoFile,
     nfetch |-> 0, nupload |-> 0, fetched |-> 0, sent |-> <<>>, exc |-> "none",
     raised_in_try |-> "none", reply_failed |-> FALSE, old |-> NoRecord,
     arrived |-> now, upload_day |-> 0, nreply |-> 0, overlaps |-> {}]

\* mutant: the reply is addressed by the token of the event before
Reply_previous_token(event, text, filename) ==
    [reply_token |-> event.reply_token - 1, text |-> text, filename |-> filename]

Reply(event, text, filename) ==
    [reply_token |-> event.reply_token, text |-> text, filename |-> filename]

KeyOf(f) == get_chat_key(f.event.source)

Finished(f) == f.pc \in {"done", "crashed"}

EmptyDict == [k \in {} |-> 0]

\* reference counting: a record dict lives while the store or a frame holds it
Collect(hp, pi, fs) ==
    LET live == {pi[k] : k \in DOMAIN pi} \cup {f.record : f \in fs}
    IN [o \in (DOMAIN hp) \cap live |-> hp[o]]

Del(pi, key) == [k \in (DOMAIN pi) \ {key} |-> pi[k]]

\* mutant: setdefault, an existing record is kept
Put_setdefault(pi, key, ref) ==
    IF key \in DOMAIN pi THEN pi
    ELSE [k \in (DOMAIN pi) \cup {key} |-> IF k = key THEN ref ELSE pi[k]]

\* pending_images[chat_key] = {...}
Put(pi, key, ref) == [k \in (DOMAIN pi) \cup {key} |-> IF k = key THEN ref ELSE pi[k]]

\* mutant: the membership test is left out
has_pending_always(pi, key) == TRUE

\* chat_key in pending_images
has_pending(pi, key) == key \in DOMAIN pi

\* mutants: a del statement is left out, or the whole dict is cleared
del_in_try_skipped(pi, key) == pi

del_in_except_skipped(pi, key) == pi

del_in_try_clears(pi, key) == EmptyDict

\* the three del pending_images[chat_key] statements
del_in_try(pi, key) == Del(pi, key)

del_in_except(pi, key) == Del(pi, key)

\* mutant: the expired record is left in the store
del_expired_skipped(pi, key) == pi

del_expired(pi, key) == Del(pi, key)

\* mutant: the budget is exhausted one message early
exhausted_early(remaining) == remaining <= 1

\* mutant: the budget is exhausted one message late
exhausted_late(remaining) == remaining < 0

\* record["remaining"] <= 0
exhausted(remaining) == remaining <= 0

\* replaces frame f by g, then frees the record dicts nobody holds
Step(f, g, pi, hp) ==
    /\ frames' = (frames \ {f}) \cup {g}
    /\ pending_images' = pi
    /\ heap' = Collect(hp, pi, (frames \ {f}) \cup {g})

Init ==
    /\ pending_images = EmptyDict
    /\ heap = EmptyDict
    /\ GOOGLE_DRIVE_SERVICE \in BOOLEAN
    /\ frames = {}
    /\ now = 1
    /\ nextId = 1
    /\ last_image = [k \in Keys |-> 0]
    /\ image_day = [k \in Keys |-> 0]
    /\ since = [k \in Keys |-> 0]
    /\ first_match = [k \in Keys |-> 0]
    /\ replaced = [k \in Keys |-> {}]

\* ------------------------------------------------------------------ webhook
\* callback -> handler.handle: one event is dispatched to its handler. With
\* `serial` the platform delivers the next event of a conversation only after
\* the handler of the previous one returned.
DeliverFrom(serial, sources, messages) ==
    /\ nextId <= MaxEvents
    /\ Cardinality(frames) < MaxInFlight
    /\ \E source \in sources, text \in messages :
        LET key == get_chat_key(source)
            kind == IF text = Image THEN "image" ELSE "text"
        IN
        /\ serial /\ key # None => \A f \in frames : KeyOf(f) # key
        /\ frames' = frames \cup
              {NewFrame(Event(nextId, kind, source, IF kind = "image" THEN <<>> ELSE text))}
        /\ IF key = None THEN UNCHANGED history
           ELSE IF kind = "image"
           THEN /\ last_image' = [last_image EXCEPT ![key] = nextId]
                /\ image_day' = [image_day EXCEPT ![key] = now]
                /\ since' = [since EXCEPT ![key] = 0]
                /\ first_match' = [first_match EXCEPT ![key] = 0]
           ELSE IF last_image[key] # 0
           THEN /\ since' = [since EXCEPT ![key] = @ + 1]
                /\ first_match' = IF first_match[key] = 0 /\ Matches(text)
                                  THEN [first_match EXCEPT ![key] = since[key] + 1]
                                  ELSE first_match
                /\ UNCHANGED <<last_image, image_day>>
           ELSE UNCHANGED history
    /\ nextId' = nextId + 1
    /\ UNCHANGED <<pending_images, heap, GOOGLE_DRIVE_SERVICE, now, replaced>>

Deliver(serial) == DeliverFrom(serial, Sources, Texts \cup {Image})

\* the handler returned (or its exception left it): the request is over
Return ==
    \E f \in frames :
        /\ Finished(f)
        /\ frames' = frames \ {f}
        /\ heap' = Collect(heap, pending_images, frames \ {f})
        /\ UNCHANGED <<pending_images, GOOGLE_DRIVE_SERVICE, now, nextId, history, replaced>>

\* line_bot_api.reply_message from frame f: sent, or LineBotApiError
reply_message(f, ok, text, filename, pc_ok, pc_raise, in_try) ==
    IF ok
    THEN [f EXCEPT !.sent = Append(@, Reply(f.event, text, filename)), !.pc = pc_ok,
                   !.nreply = @ + 1]
    ELSE [f EXCEPT !.pc = pc_raise, !.exc = "LineBotApiError", !.reply_failed = TRUE,
                   !.nreply = @ + 1,
                   !.raised_in_try = IF in_try THEN "reply_message" ELSE @]

\* ------------------------------------------------------ handle_image_message
\* chat_key is None: return; else pending_images[chat_key] = {message_id, remaining: 3}
image_store ==
    \E f \in frames :
        /\ f.event.kind = "image" /\ f.pc = "entry"
        /\ LET chat_key == get_chat_key(f.event.source) IN
           IF chat_key = None
           THEN /\ Step(f, [f EXCEPT !.pc = "done"], pending_images, heap)
                /\ UNCHANGED replaced
           ELSE LET ref == f.event.id
                    old == IF chat_key \in DOMAIN pending_images
                           THEN heap[pending_images[chat_key]] ELSE NoRecord
                IN /\ Step(f, [f EXCEPT !.chat_key = chat_key, !.pc = "reply", !.old = old],
                           Put(pending_images, chat_key, ref),
                           [o \in (DOMAIN heap) \cup {ref} |->
                               IF o = ref THEN NewRecord(f.event) ELSE heap[o]])
                   /\ replaced' = IF old = NoRecord \/ pending_images'[chat_key] # ref
                                  THEN replaced
                                  ELSE [replaced EXCEPT ![chat_key] = @ \cup {old.message_id}]
        /\ UNCHANGED <<GOOGLE_DRIVE_SERVICE, now, nextId, history>>

\* the prompt reply
image_reply ==
    \E f \in frames, ok \in BOOLEAN :
        /\ f.event.kind = "image" /\ f.pc = "reply"
        /\ Step(f, reply_message(f, ok, "PROMPT", NoFile, "done", "crashed", FALSE),
                pending_images, heap)
        /\ UNCHANGED <<GOOGLE_DRIVE_SERVICE, now, nextId, history, replaced>>

\* ------------------------------------------------------- handle_text_message
\* the events of the key whose handlers are inside download_image or
\* upload_image_to_google_drive while the handler of f starts (history)
InResolution(f, chat_key) ==
    {h.event.id : h \in {x \in frames \ {f} : /\ x.event.kind = "text"
                                               /\ x.chat_key = chat_key
                                               /\ x.pc \in {"download", "upload"}}}

\* chat_key is None: return; text = strip(); chat_key not in pending_images: return
text_entry ==
    \E f \in frames :
        /\ f.event.kind = "text" /\ f.pc = "entry"
        /\ LET chat_key == get_chat_key(f.event.source) IN
           IF chat_key = None
           THEN Step(f, [f EXCEPT !.pc = "done"], pending_images, heap)
           ELSE IF ~ has_pending(pending_images, chat_key)
           THEN Step(f, [f EXCEPT !.chat_key = chat_key, !.text = strip(f.event.text),
                                  !.overlaps = InResolution(f, chat_key),
                                  !.pc = "done"], pending_images, heap)
           ELSE Step(f, [f EXCEPT !.chat_key = chat_key, !.text = strip(f.event.text),
                                  !.overlaps = InResolution(f, chat_key),
                                  !.pc = "load"], pending_images, heap)
        /\ UNCHANGED <<GOOGLE_DRIVE_SERVICE, now, nextId, history, replaced>>

\* record = pending_images[chat_key]
text_load ==
    \E f \in frames :
        /\ f.event.kind = "text" /\ f.pc = "load"
        /\ IF f.chat_key \in DOMAIN pending_images
           THEN Step(f, [f EXCEPT !.record = pending_images[f.chat_key], !.pc = "dec_read"],
                     pending_images, heap)
           ELSE Step(f, [f EXCEPT !.exc = "KeyError", !.pc = "crashed"], pending_images, heap)
        /\ UNCHANGED <<GOOGLE_DRIVE_SERVICE, now, nextId, history, replaced>>

\* record["remaining"] -= 1, the read half
text_dec_read ==
    \E f \in frames :
        /\ f.event.kind = "text" /\ f.pc = "dec_read"
        /\ Step(f, [f EXCEPT !.tmp = heap[f.record].remaining, !.pc = "dec_write"],
                pending_images, heap)
        /\ UNCHANGED <<GOOGLE_DRIVE_SERVICE, now, nextId, history, replaced>>

\* mutant: the exhausted budget is tested before the id
text_dec_write_expiry_first ==
    \E f \in frames :
        /\ f.event.kind = "text" /\ f.pc = "dec_write"
        /\ Step(f, [f EXCEPT !.pc = IF exhausted(f.tmp - 1) THEN "expire_del"
                                     ELSE IF ID_PATTERN(f.text) THEN "download"
                                     ELSE "done"],
                pending_images, [heap EXCEPT ![f.record].remaining = f.tmp - 1])
        /\ UNCHANGED <<GOOGLE_DRIVE_SERVICE, now, nextId, history, replaced>>

\* record["remaining"] -= 1, the write half; then the branch on ID_PATTERN.match(text)
text_dec_write ==
    \E f \in frames :
        /\ f.event.kind = "text" /\ f.pc = "dec_write"
        /\ Step(f, [f EXCEPT !.pc = IF ID_PATTERN(f.text) THEN "download" ELSE "check_remaining"],
                pending_images, [heap EXCEPT ![f.record].remaining = f.tmp - 1])
        /\ UNCHANGED <<GOOGLE_DRIVE_SERVICE, now, nextId, history, replaced>>

\* mutant: a failed download does not leave the try block
text_download_continue ==
    \E f \in frames, ok \in BOOLEAN :
        /\ f.event.kind = "text" /\ f.pc = "download"
        /\ Step(f, IF ok THEN [f EXCEPT !.nfetch = @ + 1, !.pc = "upload",
                                        !.fetched = heap[f.record].message_id]
                   ELSE [f EXCEPT !.nfetch = @ + 1, !.pc = "upload", !.exc = "FetchError",
                                  !.fetched = heap[f.record].message_id,
                                  !.raised_in_try = "download_image"],
                pending_images, heap)
        /\ UNCHANGED <<GOOGLE_DRIVE_SERVICE, now, nextId, history, replaced>>

\* image_bytes = download_image(record["message_id"]): the bytes, or an error of the platform
text_download ==
    \E f \in frames, ok \in BOOLEAN :
        /\ f.event.kind = "text" /\ f.pc = "download"
        /\ Step(f, IF ok THEN [f EXCEPT !.nfetch = @ + 1, !.pc = "upload",
                                        !.fetched = heap[f.record].message_id]
                   ELSE [f EXCEPT !.nfetch = @ + 1, !.pc = "except", !.exc = "FetchError",
                                  !.fetched = heap[f.record].message_id,
                                  !.raised_in_try = "download_image"],
                pending_images, heap)
        /\ UNCHANGED <<GOOGLE_DRIVE_SERVICE, now, nextId, history, replaced>>

\* mutant: the file is named after the day the image was received
text_upload_image_day ==
    \E f \in frames, api_ok \in BOOLEAN :
        /\ f.event.kind = "text" /\ f.pc = "upload"
        /\ Step(f, [f EXCEPT !.nupload = @ + 1, !.pc = "del", !.upload_day = now,
                      !.uploaded_filename =
                          upload_image_to_google_drive(GOOGLE_DRIVE_SERVICE, api_ok,
                              strftime(DateOf(image_day[f.chat_key])), f.text)],
                pending_images, heap)
        /\ UNCHANGED <<GOOGLE_DRIVE_SERVICE, now, nextId, history, replaced>>

\* uploaded_filename = upload_image_to_google_drive(image_bytes, text)
text_upload ==
    \E f \in frames, api_ok \in BOOLEAN :
        /\ f.event.kind = "text" /\ f.pc = "upload"
        /\ Step(f, [f EXCEPT !.nupload = @ + 1, !.pc = "del", !.upload_day = now,
                      !.uploaded_filename =
                          upload_image_to_google_drive(GOOGLE_DRIVE_SERVICE, api_ok,
                                                       strftime(DateOf(now)), f.text)],
                pending_images, heap)
        /\ UNCHANGED <<GOOGLE_DRIVE_SERVICE, now, nextId, history, replaced>>

\* del pending_images[chat_key], inside the try block
text_del ==
    \E f \in frames :
        /\ f.event.kind = "text" /\ f.pc = "del"
        /\ IF f.chat_key \in DOMAIN pending_images
           THEN Step(f, [f EXCEPT !.pc = "reply"], del_in_try(pending_images, f.chat_key), heap)
           ELSE Step(f, [f EXCEPT !.pc = "except", !.exc = "KeyError", !.raised_in_try = "del"],
                     pending_images, heap)
        /\ UNCHANGED <<GOOGLE_DRIVE_SERVICE, now, nextId, history, replaced>>

\* the success reply or the upload-failure reply, inside the try block
text_reply ==
    \E f \in frames, ok \in BOOLEAN :
        /\ f.event.kind = "text" /\ f.pc = "reply"
        /\ Step(f, IF f.uploaded_filename # NoFile
                   THEN reply_message(f, ok, "SUCCESS", f.uploaded_filename, "done", "except", TRUE)
                   ELSE reply_message(f, ok, "UPLOAD_FAILED", NoFile, "done", "except", TRUE),
                pending_images, heap)
        /\ UNCHANGED <<GOOGLE_DRIVE_SERVICE, now, nextId, history, replaced>>

\* except Exception: del pending_images[chat_key]
text_except_del ==
    \E f \in frames :
        /\ f.event.kind = "text" /\ f.pc = "except"
        /\ IF f.chat_key \in DOMAIN pending_images
           THEN Step(f, [f EXCEPT !.pc = "except_reply"],
                     del_in_except(pending_images, f.chat_key), heap)
           ELSE Step(f, [f EXCEPT !.pc = "crashed", !.exc = "KeyError"], pending_images, heap)
        /\ UNCHANGED <<GOOGLE_DRIVE_SERVICE, now, nextId, history, replaced>>

\* except Exception: the generic failure reply
text_except_reply ==
    \E f \in frames, ok \in BOOLEAN :
        /\ f.event.kind = "text" /\ f.pc = "except_reply"
        /\ Step(f, reply_message(f, ok, "ERROR", NoFile, "done", "crashed", FALSE),
                pending_images, heap)
        /\ UNCHANGED <<GOOGLE_DRIVE_SERVICE, now, nextId, history, replaced>>

\* mutant: the budget is never tested
text_check_remaining_skipped ==
    \E f \in frames :
        /\ f.event.kind = "text" /\ f.pc = "check_remaining"
        /\ Step(f, [f EXCEPT !.pc = "done"], pending_images, heap)
        /\ UNCHANGED <<GOOGLE_DRIVE_SERVICE, now, nextId, history, replaced>>

\* if record["remaining"] <= 0, for a text that is no id
text_check_remaining ==
    \E f \in frames :
        /\ f.event.kind = "text" /\ f.pc = "check_remaining"
        /\ Step(f, [f EXCEPT !.pc = IF exhausted(heap[f.record].remaining)
                                     THEN "expire_del" ELSE "done"],
                pending_images, heap)
        /\ UNCHANGED <<GOOGLE_DRIVE_SERVICE, now, nextId, history, replaced>>

\* del pending_images[chat_key] of the expiry branch
text_expire_del ==
    \E f \in frames :
        /\ f.event.kind = "text" /\ f.pc = "expire_del"
        /\ IF f.chat_key \in DOMAIN pending_images
           THEN Step(f, [f EXCEPT !.pc = "expire_reply"],
                     del_expired(pending_images, f.chat_key), heap)
           ELSE Step(f, [f EXCEPT !.pc = "crashed", !.exc = "KeyError"], pending_images, heap)
        /\ UNCHANGED <<GOOGLE_DRIVE_SERVICE, now, nextId, history, replaced>>

\* the expiry reply
text_expire_reply ==
    \E f \in frames, ok \in BOOLEAN :
        /\ f.event.kind = "text" /\ f.pc = "expire_reply"
        /\ Step(f, reply_message(f, ok, "EXPIRED", NoFile, "done", "crashed", FALSE),
                pending_images, heap)
        /\ UNCHANGED <<GOOGLE_DRIVE_SERVICE, now, nextId, history, replaced>>

handle_image_message == image_store \/ image_reply

handle_text_message ==
    \/ text_entry \/ text_load \/ text_dec_read \/ text_dec_write
    \/ text_download \/ text_upload \/ text_del \/ text_reply
    \/ text_except_del \/ text_except_reply
    \/ text_check_remaining \/ text_expire_del \/ text_expire_reply

Next == Deliver(TRUE) \/ Return \/ handle_image_message \/ handle_text_message

\* events of one conversation are handled one after the other, conversations
\* run side by side
Spec == Init /\ [][Next]_vars

\* the service does not serialize the handlers of one conversation: an event
\* is dispatched while an earlier one of the same key is still being handled
RaceNext ==
    \/ DeliverFrom(FALSE, {S_user}, {Image, T_id, T_word})
    \/ Return \/ handle_image_message \/ handle_text_message

\* one conversation, more message contents
TextNext ==
    \/ DeliverFrom(TRUE, {S_user}, WideTexts \cup {Image})
    \/ Return \/ handle_image_message \/ handle_text_message

RaceSpec == Init /\ [][RaceNext]_vars

TextSpec == Init /\ [][TextNext]_vars

\* midnight passes
Tick ==
    /\ now < MaxDay
    /\ now' = now + 1
    /\ UNCHANGED <<pending_images, heap, GOOGLE_DRIVE_SERVICE, frames, nextId,
                   history, replaced>>

\* one conversation, over several days
ClockNext ==
    \/ DeliverFrom(TRUE, {S_user}, {Image, T_id, T_word})
    \/ Tick
    \/ Return \/ handle_image_message \/ handle_text_message

ClockSpec == Init /\ [][ClockNext]_vars

\* image events from every kind of source: get_chat_key applied and its keys stored
KeyNext == DeliverFrom(TRUE, AllSources, {Image}) \/ Return \/ handle_image_message

KeySpec == Init /\ [][KeyNext]_vars

\* ------------------------------------------------------------------ claims
\* the record the store holds for key k
Rec(k) == IF k \in DOMAIN pending_images THEN heap[pending_images[k]] ELSE NoRecord

\* the source carries a user, group or room id
HasId(source) == source.user_id # <<>> \/ source.group_id # <<>> \/ source.room_id # <<>>

\* C1: once handle_image_message has handled an image event of a source with an
\* id, the store holds for its key the record {message_id: id of that event,
\* remaining: 3}, whatever the key held before; the handler ends by the prompt
\* reply, the one reply it sent, unless reply_message itself raised.
C1_ImageStoresRecord ==
    \A f \in frames :
        (f.event.kind = "image" /\ HasId(f.event.source) /\ Finished(f)) =>
            /\ Rec(KeyOf(f)) = [message_id |-> f.event.id, remaining |-> 3]
            /\ f.pc = "done" => f.sent = <<Reply(f.event, "PROMPT", NoFile)>>
            /\ f.pc = "crashed" => f.reply_failed /\ f.sent = <<>>

C1_Witness ==
    \E f \in frames :
        /\ f.event.kind = "image" /\ f.pc = "done"
        /\ f.old.remaining = 2
        /\ Rec(KeyOf(f)) = [message_id |-> f.event.id, remaining |-> 3]
        /\ Len(f.sent) = 1

\* C2: of the texts that follow an image of a conversation, none of them an id:
\* after the 1st and the 2nd the record is still there (budget 2, then 1) and
\* nothing was replied; after the 3rd the record is gone and the expiry reply
\* was sent for that 3rd event.
C2_ThreeTextsExpire ==
    \A f \in frames :
        LET k == KeyOf(f) IN
        (/\ f.event.kind = "text" /\ HasId(f.event.source) /\ Finished(f)
         /\ last_image[k] # 0 /\ first_match[k] = 0) =>
            /\ since[k] \in {1, 2} =>
                  /\ Rec(k) = [message_id |-> last_image[k], remaining |-> 3 - since[k]]
                  /\ f.pc = "done" /\ f.sent = <<>>
            /\ since[k] = 3 =>
                  /\ k \notin DOMAIN pending_images
                  /\ f.pc = "done" => f.sent = <<Reply(f.event, "EXPIRED", NoFile)>>
                  /\ f.pc = "crashed" => f.reply_failed /\ f.sent = <<>>

C2_Witness ==
    \E f \in frames :
        /\ f.event.kind = "text" /\ HasId(f.event.source) /\ f.pc = "done"
        /\ since[KeyOf(f)] = 3 /\ first_match[KeyOf(f)] = 0
        /\ KeyOf(f) \notin DOMAIN pending_images
        /\ f.sent = <<Reply(f.event, "EXPIRED", NoFile)>>

\* the text of frame f is the first id sent after the last image of its
\* conversation, within the three messages: a record is pending when it arrives
FirstIdInBudget(f) ==
    LET k == KeyOf(f) IN
    /\ f.event.kind = "text" /\ HasId(f.event.source)
    /\ Matches(f.event.text)
    /\ last_image[k] # 0 /\ first_match[k] = since[k] /\ since[k] \in 1..3

FetchOk(f) == f.nfetch = 1 /\ f.raised_in_try # "download_image"

\* C3: a text that is an id, arriving while a record is pending, makes the
\* handler download the stored image once and (when that worked) upload once,
\* never more; when the handler ends the record is gone, whatever the outcome.
C3_ResolvedOnceRecordRemoved ==
    \A f \in frames :
        FirstIdInBudget(f) =>
            /\ f.nfetch <= 1 /\ f.nupload <= 1
            /\ Finished(f) =>
                  /\ f.nfetch = 1 /\ f.fetched = last_image[KeyOf(f)]
                  /\ f.nupload = IF FetchOk(f) THEN 1 ELSE 0
                  /\ KeyOf(f) \notin DOMAIN pending_images

C3_Witness ==
    \E f \in frames :
        /\ FirstIdInBudget(f) /\ f.pc = "done"
        /\ f.nfetch = 1 /\ f.nupload = 1
        /\ f.sent = <<Reply(f.event, "UPLOAD_FAILED", NoFile)>>
        /\ KeyOf(f) \notin DOMAIN pending_images

\* C4: an image arriving while a record is pending replaces it: the record is
\* then {message_id: the new image, remaining: 3}, the old dict is held by
\* nobody, and no download ever uses the message id of a replaced record.
C4_SecondImageReplaces ==
    /\ \A f \in frames :
        (f.event.kind = "image" /\ Finished(f) /\ f.old # NoRecord) =>
            /\ Rec(KeyOf(f)) = [message_id |-> f.event.id, remaining |-> 3]
            /\ f.old.message_id \notin DOMAIN heap
            /\ f.old.message_id \in replaced[KeyOf(f)]
    /\ \A f \in frames :
        f.nfetch > 0 => f.fetched \notin replaced[KeyOf(f)]

C4_Witness ==
    \E f \in frames :
        /\ f.event.kind = "text" /\ HasId(f.event.source) /\ f.pc = "done"
        /\ replaced[KeyOf(f)] # {}
        /\ f.nfetch = 1 /\ f.fetched = last_image[KeyOf(f)]
        /\ Len(f.sent) = 1 /\ f.sent[1].text = "SUCCESS"

\* frame f of the current state takes a step (or returns) in this transition
Steps(f) == f \in frames /\ f \notin frames'

\* the frame that f became
Dropped(f) ==
    /\ pending_images' = pending_images
    /\ heap' = heap
    /\ \E g \in frames' :
        /\ g.event = f.event /\ g.pc = "done"
        /\ g.sent = <<>> /\ g.nfetch = 0 /\ g.nupload = 0

\* C5: a text event of a conversation that has no pending record, whatever its
\* content, makes the handler return at once: pending_images and the record
\* dicts are unchanged, nothing is replied, downloaded or uploaded.
C5_TextWithoutRecordIgnored ==
    [][\A f \in frames :
          (/\ Steps(f) /\ f.event.kind = "text" /\ f.pc = "entry"
           /\ HasId(f.event.source)
           /\ KeyOf(f) \notin DOMAIN pending_images) => Dropped(f)]_vars

C5_Witness ==
    \E f \in frames :
        /\ f.event.kind = "text" /\ HasId(f.event.source) /\ f.pc = "done"
        /\ Matches(f.event.text)
        /\ last_image[KeyOf(f)] # 0 /\ since[KeyOf(f)] > first_match[KeyOf(f)]
        /\ f.record = 0 /\ f.sent = <<>> /\ f.nfetch = 0

\* C6: an image or text event whose source has no user, group or room id is
\* dropped: pending_images and the record dicts are unchanged, nothing is
\* replied, downloaded or uploaded.
C6_UnroutableDropped ==
    [][\A f \in frames :
          (Steps(f) /\ f.pc = "entry" /\ ~ HasId(f.event.source)) => Dropped(f)]_vars

C6_Witness ==
    \E f \in frames :
        /\ f.event.kind = "image" /\ ~ HasId(f.event.source) /\ f.pc = "done"
        /\ f.sent = <<>>
        /\ pending_images # EmptyDict

\* the reply the resolution of frame f owes
ResolutionReply(f) ==
    IF ~ FetchOk(f) THEN Reply(f.event, "ERROR", NoFile)
    ELSE IF f.uploaded_filename # NoFile
    THEN Reply(f.event, "SUCCESS",
               filename_of(strftime(DateOf(f.upload_day)), strip(f.event.text)))
    ELSE Reply(f.event, "UPLOAD_FAILED", NoFile)

\* C7: when the 3rd text after an image is the id (the decrement brings
\* remaining to 0 in the same call), the handler takes the resolution branch:
\* it downloads, uploads when the download worked, replies with the result of
\* the resolution, and neither enters the expiry branch nor sends the expiry reply.
C7_MatchWinsOverExpiry ==
    \A f \in frames :
        (FirstIdInBudget(f) /\ since[KeyOf(f)] = 3) =>
            /\ f.pc \notin {"check_remaining", "expire_del", "expire_reply"}
            /\ \A i \in 1..Len(f.sent) : f.sent[i].text # "EXPIRED"
            /\ Finished(f) =>
                  /\ f.nfetch = 1
                  /\ FetchOk(f) => f.nupload = 1
                  /\ f.pc = "done" => f.sent = <<ResolutionReply(f)>>

C7_Witness ==
    \E f \in frames :
        /\ FirstIdInBudget(f) /\ since[KeyOf(f)] = 3
        /\ f.pc = "done" /\ f.tmp = 1
        /\ f.nfetch = 1 /\ f.nupload = 1
        /\ f.sent = <<Reply(f.event, "SUCCESS",
                             filename_of(strftime(DateOf(f.upload_day)), strip(f.event.text)))>>

\* download_image raised, or upload_image_to_google_drive returned None
ResolutionFailed(f) ==
    \/ f.raised_in_try = "download_image"
    \/ f.nupload = 1 /\ f.uploaded_filename = NoFile

\* C8: when download_image raises or the upload fails, the handler does not
\* let that error out: the record of the key is removed, no success reply is
\* sent and, unless reply_message itself raises, the handler returns normally
\* after exactly one failure reply.
C8_FailureCaughtRecordCleared ==
    \A f \in frames :
        (f.event.kind = "text" /\ ResolutionFailed(f) /\ Finished(f)) =>
            /\ KeyOf(f) \notin DOMAIN pending_images
            /\ \A i \in 1..Len(f.sent) : f.sent[i].text # "SUCCESS"
            /\ ~ f.reply_failed =>
                  /\ f.pc = "done"
                  /\ f.sent = <<Reply(f.event,
                                      IF f.raised_in_try = "download_image"
                                      THEN "ERROR" ELSE "UPLOAD_FAILED", NoFile)>>

C8_Witness ==
    \E f \in frames :
        /\ f.event.kind = "text" /\ f.pc = "done"
        /\ f.raised_in_try = "download_image" /\ f.exc = "FetchError"
        /\ f.sent = <<Reply(f.event, "ERROR", NoFile)>>
        /\ f.chat_key \notin DOMAIN pending_images

\* C9, as claimed: whatever raises inside the try block (download, upload, del,
\* the reply after the del), the except clause clears the record and sends the
\* generic failure reply, and the handler returns normally (the one case left
\* aside: the generic failure reply itself cannot be sent).
C9_AnyErrorInTryHandled ==
    \A f \in frames :
        (/\ f.raised_in_try # "none" /\ Finished(f)
         /\ ~ (f.pc = "crashed" /\ f.exc = "LineBotApiError")) =>
            /\ f.pc = "done"
            /\ f.chat_key \notin DOMAIN pending_images
            /\ f.sent # <<>> /\ f.sent[Len(f.sent)].text = "ERROR"

\* the record a conversation has by its own events alone: the last image's,
\* less one per text since, until an id or the third text
Expected(k) ==
    IF last_image[k] # 0 /\ first_match[k] = 0 /\ since[k] < 3
    THEN [message_id |-> last_image[k], remaining |-> 3 - since[k]]
    ELSE NoRecord

\* the replies a handler owes by the events of its own conversation alone
ExpectedSent(f) ==
    LET k == KeyOf(f) IN
    IF f.event.kind = "image" THEN <<Reply(f.event, "PROMPT", NoFile)>>
    ELSE IF last_image[k] = 0 \/ since[k] > 3 THEN <<>>
    ELSE IF first_match[k] = since[k] THEN <<ResolutionReply(f)>>
    ELSE IF first_match[k] # 0 THEN <<>>
    ELSE IF since[k] = 3 THEN <<Reply(f.event, "EXPIRED", NoFile)>>
    ELSE <<>>

\* no handler of conversation k is running
Quiet(k) == \A f \in frames : (HasId(f.event.source) /\ KeyOf(f) = k) => Finished(f)

Isolated ==
    /\ \A k \in Keys : Quiet(k) => Rec(k) = Expected(k)
    /\ \A f \in frames :
        (HasId(f.event.source) /\ f.pc = "done") => f.sent = ExpectedSent(f)

\* C10: with handlers of distinct conversations interleaved, the record of a
\* key changes only in a step of a handler of that key, and between its
\* handlers each key's record and each handler's replies are what the events
\* of that conversation alone give.
C10_DistinctKeysIsolated ==
    [][/\ \A k \in Keys :
            Rec(k)' # Rec(k) =>
                \E f \in frames : Steps(f) /\ HasId(f.event.source) /\ KeyOf(f) = k
       /\ Isolated']_vars

C10_Witness ==
    \E f, g \in frames :
        /\ HasId(f.event.source) /\ HasId(g.event.source)
        /\ KeyOf(f) # KeyOf(g)
        /\ f.pc = "upload" /\ g.pc = "dec_write"
        /\ Rec(KeyOf(f)).remaining = 2 /\ Rec(KeyOf(g)).remaining = 3

\* the content between the first and the last character that is no whitespace
Core(raw) ==
    LET idx == {i \in 1..Len(raw) : raw[i] \notin Whitespace} IN
    IF idx = {} THEN <<>>
    ELSE SubSeq(raw, CHOOSE i \in idx : \A j \in idx : i <= j,
                     CHOOSE i \in idx : \A j \in idx : i >= j)

FiveDigits(t) == Len(t) = 5 /\ \A i \in 1..5 : t[i] \in UnicodeDigits

\* frame f found a record and is past the test of its text
PastTest(f) ==
    /\ f.event.kind = "text" /\ f.record # 0
    /\ f.pc \notin {"entry", "load", "dec_read", "dec_write"}

TookResolution(f) == f.pc = "download" \/ f.nfetch >= 1

\* C11, as claimed: with a record pending, a text triggers the resolution
\* exactly when its raw content is five decimal digits and nothing else.
C11_RawContentDecides ==
    \A f \in frames : PastTest(f) => (TookResolution(f) <=> FiveDigits(f.event.text))

\* C11, amended: with a record pending, a text triggers the resolution exactly
\* when its content without leading and trailing whitespace is five decimal
\* digits; five digits surrounded by spaces do trigger it.
C11_StrippedContentDecides ==
    \A f \in frames : PastTest(f) => (TookResolution(f) <=> FiveDigits(Core(f.event.text)))

C11_Witness ==
    \E f \in frames :
        /\ PastTest(f) /\ f.event.text = T_padded
        /\ f.pc = "done" /\ f.nfetch = 1
        /\ Len(f.sent) = 1 /\ f.sent[1].text = "SUCCESS"

\* C12: the file a resolution stores, and the name its success reply gives, is
\* <YYYYMMDD>_<id>.jpg with <id> the five digits of the text and the date the
\* day upload_image_to_google_drive runs, a day of the handling of the id text
\* event, whatever the day the image was received.
C12_NameDatedByResolution ==
    \A f \in frames :
        f.uploaded_filename # NoFile =>
            /\ f.uploaded_filename =
                  strftime(DateOf(f.upload_day)) \o <<"_">> \o Core(f.event.text) \o <<".jpg">>
            /\ Len(f.uploaded_filename) = 15 /\ FiveDigits(Core(f.event.text))
            /\ f.arrived <= f.upload_day /\ f.upload_day <= now
            /\ f.pc = "done" => f.sent = <<Reply(f.event, "SUCCESS", f.uploaded_filename)>>

C12_Witness ==
    \E f \in frames :
        /\ f.pc = "done" /\ Len(f.sent) = 1 /\ f.sent[1].text = "SUCCESS"
        /\ image_day[f.chat_key] = 1 /\ f.upload_day = 2
        /\ f.sent[1].filename =
              <<"2", "0", "2", "6", "0", "1", "0", "1", "_", "0", "0", "0", "0", "1", ".jpg">>

\* the ids of a source in the order of precedence, each with its tag
Candidates(source) ==
    <<[tag |-> <<"u", "s", "e", "r", ":">>, id |-> source.user_id],
      [tag |-> <<"g", "r", "o", "u", "p", ":">>, id |-> source.group_id],
      [tag |-> <<"r", "o", "o", "m", ":">>, id |-> source.room_id]>>

\* 1, 2 or 3: the first id of the source that is not empty; 0 when none is
OriginType(source) ==
    LET idx == {i \in 1..3 : Candidates(source)[i].id # <<>>} IN
    IF idx = {} THEN 0 ELSE CHOOSE i \in idx : \A j \in idx : i <= j

\* C13: the key of a source is the tag of its first non-empty id (user, then
\* group, then room) followed by that id, and None when it has none; handlers
\* of sources of different origin types never work on the same key, equal raw
\* ids or not, and every stored key starts with a tag.
C13_KeyByPrecedence ==
    /\ \A f \in frames :
        f.pc # "entry" =>
            LET t == OriginType(f.event.source) IN
            /\ t = 0 => f.chat_key = None /\ f.pc = "done"
            /\ t # 0 => f.chat_key = Candidates(f.event.source)[t].tag
                                         \o Candidates(f.event.source)[t].id
    /\ \A f, g \in frames :
        (/\ f.pc # "entry" /\ g.pc # "entry"
         /\ OriginType(f.event.source) # OriginType(g.event.source)) =>
            f.chat_key # g.chat_key
    /\ \A k \in DOMAIN pending_images :
        \E s \in AllSources :
            /\ OriginType(s) # 0
            /\ k = Candidates(s)[OriginType(s)].tag \o Candidates(s)[OriginType(s)].id

C13_Witness ==
    \E f, g \in frames :
        /\ f.event.source = [user_id |-> IdA, group_id |-> IdA, room_id |-> <<>>]
        /\ g.event.source = S_group
        /\ f.chat_key = <<"u", "s", "e", "r", ":", "U", "1">>
        /\ g.chat_key = <<"g", "r", "o", "u", "p", ":", "U", "1">>
        /\ {f.chat_key, g.chat_key} \subseteq DOMAIN pending_images

\* C14: the upload runs only after a download that worked; when download_image
\* raises for an id text with a record pending, upload_image_to_google_drive
\* is not called and no file is named, and when the handler ends the record is
\* gone and (unless reply_message itself raises) the one reply is the generic
\* failure message.
C14_FetchBeforeStore ==
    \A f \in frames :
        f.event.kind = "text" =>
            /\ f.nupload > 0 => f.nfetch = 1 /\ f.raised_in_try # "download_image"
            /\ f.raised_in_try = "download_image" =>
                  /\ f.nfetch = 1 /\ f.nupload = 0 /\ f.uploaded_filename = NoFile
                  /\ Finished(f) =>
                        /\ KeyOf(f) \notin DOMAIN pending_images
                        /\ ~ f.reply_failed =>
                              f.pc = "done" /\ f.sent = <<Reply(f.event, "ERROR", NoFile)>>

C14_Witness ==
    \E f \in frames :
        /\ FirstIdInBudget(f) /\ f.pc = "done"
        /\ f.raised_in_try = "download_image"
        /\ f.nfetch = 1 /\ f.fetched = last_image[KeyOf(f)] /\ f.nupload = 0
        /\ f.sent = <<Reply(f.event, "ERROR", NoFile)>>
        /\ KeyOf(f) \notin DOMAIN pending_images
        /\ since[KeyOf(f)] = 1

\* a text frame whose text is no id and that found a record of its key
Plain(f) ==
    /\ f.event.kind = "text" /\ HasId(f.event.source)
    /\ ~ Matches(f.event.text) /\ f.record # 0

\* C15: a text that is no id, with a record pending and the budget above 0
\* after it, only takes 1 from that record's remaining: no step of its handler
\* changes pending_images, the record keeps its message_id, the handler ends
\* with no reply, no download and no upload, and the record is still stored
\* with one less than the handler found; no record's remaining ever grows.
C15_SilentDecrement ==
    [][/\ \A id \in DOMAIN heap \cap DOMAIN heap' :
            /\ heap'[id].remaining <= heap[id].remaining
            /\ heap'[id].message_id = heap[id].message_id
       /\ \A f \in frames :
            (Steps(f) /\ Plain(f) /\ f.pc \in {"dec_read", "dec_write", "check_remaining"}
             /\ heap[f.record].remaining - (IF f.pc = "check_remaining" THEN 0 ELSE 1) > 0) =>
                /\ pending_images' = pending_images
                /\ pending_images[KeyOf(f)] = f.record
                /\ heap'[f.record].message_id = last_image[KeyOf(f)]
                /\ \A id \in DOMAIN heap : id # f.record => id \in DOMAIN heap' /\ heap'[id] = heap[id]
                /\ heap'[f.record].remaining =
                       heap[f.record].remaining - (IF f.pc = "dec_write" THEN 1 ELSE 0)
                /\ \E g \in frames' :
                    /\ g.event = f.event
                    /\ g.sent = <<>> /\ g.nfetch = 0 /\ g.nupload = 0
                    /\ g.pc = CASE f.pc = "dec_read" -> "dec_write"
                                [] f.pc = "dec_write" -> "check_remaining"
                                [] OTHER -> "done"
                    /\ g.pc = "done" =>
                          /\ g.tmp = 4 - since[KeyOf(f)]
                          /\ Rec(KeyOf(f))' = [message_id |-> last_image[KeyOf(f)],
                                               remaining |-> g.tmp - 1]]_vars

C15_Witness ==
    \E f \in frames :
        /\ Plain(f) /\ f.pc = "done" /\ f.tmp = 2
        /\ f.sent = <<>> /\ f.nfetch = 0 /\ f.nupload = 0
        /\ since[KeyOf(f)] = 2
        /\ Rec(KeyOf(f)) = [message_id |-> last_image[KeyOf(f)], remaining |-> 1]

\* the text that uses up the budget: the third since the image, none an id
Exhausting(f) ==
    LET k == KeyOf(f) IN
    /\ f.event.kind = "text" /\ HasId(f.event.source)
    /\ last_image[k] # 0 /\ first_match[k] = 0 /\ since[k] = 3

\* C16: a handler of an event whose source has an id calls reply_message at
\* most once, and what it sends carries the reply token of its own event; when
\* it has ended it has called once for an image, for the first id text within
\* the budget of a pending record and for the text that exhausts the budget,
\* and not at all for any other text.
C16_OneReplyPerEvent ==
    \A f \in frames :
        HasId(f.event.source) =>
            /\ f.nreply <= 1 /\ Len(f.sent) <= f.nreply
            /\ \A i \in 1..Len(f.sent) :
                  /\ f.sent[i].reply_token = f.event.reply_token
                  /\ \A g \in frames : g.event.id # f.event.id =>
                        f.sent[i].reply_token # g.event.reply_token
            /\ Finished(f) =>
                  f.nreply = IF \/ f.event.kind = "image"
                                \/ FirstIdInBudget(f)
                                \/ Exhausting(f)
                             THEN 1 ELSE 0

C16_Witness ==
    \E f, g \in frames :
        /\ f.event.kind = "image" /\ f.pc = "done" /\ f.nreply = 1
        /\ f.sent = <<[reply_token |-> f.event.reply_token, text |-> "PROMPT", filename |-> NoFile]>>
        /\ FirstIdInBudget(g) /\ g.pc = "done" /\ g.nreply = 1 /\ Len(g.sent) = 1
        /\ g.sent[1].reply_token = g.event.reply_token
        /\ g.sent[1].reply_token # f.sent[1].reply_token

\* C17: with the handlers of a conversation run one after the other, whenever
\* none of them is running every record stored for the key has remaining 1, 2
\* or 3 (3 less the texts since the image): no record with remaining <= 0 is
\* left in pending_images.
C17_StoredBudgetPositive ==
    \A k \in Keys :
        (Quiet(k) /\ k \in DOMAIN pending_images) =>
            /\ pending_images[k] \in DOMAIN heap
            /\ Rec(k).remaining \in 1..Budget
            /\ Rec(k).remaining = Budget - since[k]

C17_Witness ==
    \E k \in Keys :
        /\ \A f \in frames : KeyOf(f) # k
        /\ k \in DOMAIN pending_images
        /\ Rec(k).remaining = 1 /\ since[k] = 2
        /\ pending_images[k] = last_image[k]

\* C18: a key leaves pending_images only in a del step of a handler of a text
\* event of that same key (no image handler, no handler of another key and no
\* other step takes it out), and whenever no handler of the key is running
\* and 3 or more texts have come since its last image, the key has no record,
\* whatever the texts were and however download, upload and replies went.
C18_BudgetIsTheOnlyExit ==
    [][/\ \A k \in Keys :
            (k \in DOMAIN pending_images /\ k \notin DOMAIN pending_images') =>
                \E f \in frames :
                    /\ Steps(f) /\ f.event.kind = "text" /\ KeyOf(f) = k
                    /\ f.pc \in {"del", "except", "expire_del"}
       /\ \A k \in Keys :
            (Quiet(k)' /\ last_image'[k] # 0 /\ since'[k] >= Budget) =>
                k \notin DOMAIN pending_images']_vars

C18_Witness ==
    \E k \in Keys :
        /\ Quiet(k) /\ since[k] = 3 /\ first_match[k] = 2
        /\ k \notin DOMAIN pending_images
        /\ \E f \in frames :
            /\ KeyOf(f) = k /\ f.event.kind = "text" /\ f.pc = "done"
            /\ f.sent = <<>> /\ f.record = 0

\* a text handler that ended in an exception nobody caught, no reply_message
\* call having raised
KeyErrorOut(f) == f.event.kind = "text" /\ f.pc = "crashed" /\ ~ f.reply_failed

\* C19, as claimed: when the handler of a text event starts while the handler
\* of an earlier id text of the same key is inside the download or the upload,
\* neither of the two ends in an uncaught exception, and once both have ended
\* the record they worked on is no longer stored.
C19_OverlapConfined ==
    \A g \in frames :
        g.overlaps # {} =>
            \A f \in frames :
                f.event.id \in g.overlaps =>
                    /\ ~ KeyErrorOut(f) /\ ~ KeyErrorOut(g)
                    /\ (Finished(f) /\ Finished(g)) =>
                          \A k \in DOMAIN pending_images :
                              pending_images[k] \notin {f.record, g.record}

\* C20, as claimed: a del statement of a text handler takes out of
\* pending_images only the record that handler loaded and decided on; a record
\* stored by an image event handled meanwhile stays in the store.
C20_DeletesOwnRecord ==
    [][\A f \in frames :
          (/\ Steps(f) /\ f.event.kind = "text"
           /\ f.pc \in {"del", "except", "expire_del"}
           /\ f.chat_key \in DOMAIN pending_images
           /\ f.chat_key \notin DOMAIN pending_images') =>
              pending_images[f.chat_key] = f.record]_vars
====
